---------------------------- MODULE Spec2Model ----------------------------
(***************************************************************************)
(* Model of the OCR scanning components of src/src/components/OCR.tsx      *)
(* (the OCR component, lines 1-194, and the OCRCamera component, lines     *)
(* 196-379) and of their host, App (src/unnamed/part_000).                 *)
(*                                                                         *)
(* Text is modelled as a sequence of one-character strings, so that the    *)
(* regular expressions, trim() and replace() of extractDetails act on      *)
(* characters as they do in the code.                                      *)
(***************************************************************************)
EXTENDS Naturals, Sequences, FiniteSets

VARIABLES
    variant,        \* which component the host mounts: "OCR" or "OCRCamera"
    platform,       \* Platform.OS
    mounted,        \* the component is mounted (between mount and teardown)
    hooks,          \* current values: device, hasPermission, isProcessing, scanning
    error,          \* the error state (useState<string | null>)
    rendered,       \* the values the last render (and its effect closure) saw
    cameraRef,      \* cameraRef.current is non-null
    interval,       \* the interval of the current effect instance is running
    cycles,         \* the scan() invocations suspended at an await
    started,        \* number of cycles started so far
    lastTick,       \* what the last timer tick did
    calls,          \* the invocations of onDetailsExtracted, in order
    outcomes,       \* how each finished cycle ended, in order
    last,           \* the cycle that finished last: its result or its failure
    startScanning,  \* App's state
    xpc,            \* extractor harness: "idle", "input" or "done"
    xblocks,        \* extractor harness: the recognised blocks
    xres            \* extractor harness: what the extractors returned

ctlVars == <<variant, platform, mounted, hooks, error, rendered, cameraRef,
             interval, cycles, started, lastTick, calls, outcomes, last,
             startScanning>>
xVars == <<xpc, xblocks, xres>>
vars == <<variant, platform, mounted, hooks, error, rendered, cameraRef,
          interval, cycles, started, lastTick, calls, outcomes, last,
          startScanning, xpc, xblocks, xres>>

(***************************************************************************)
(* Bounds of the model.                                                    *)
(***************************************************************************)
\* cycles one controller may start before the model stops the timer
MaxCycles == 3
\* blocks in one recognition result of the extractor harness
MaxBlocks == 2

(***************************************************************************)
(* JavaScript values.                                                      *)
(***************************************************************************)
Null == [kind |-> "null", val |-> <<>>]
Undefined == [kind |-> "undefined", val |-> <<>>]
Str(s) == [kind |-> "string", val |-> s]

\* a test that takes every string, the empty one included, as true
TruthyPresent(v) == v.kind = "string"

\* JavaScript truthiness of a string | null | undefined value
Truthy(v) == v.kind = "string" /\ v.val # <<>>

\* a || b in place of a ?? b: the empty string is replaced as well
CoalesceOr(a, b) == IF Truthy(a) THEN a ELSE b

\* a ?? b
Coalesce(a, b) == IF a.kind \in {"null", "undefined"} THEN b ELSE a

\* the characters \s matches and trim() strips
WhiteSpace == {" ", "\n", "\t"}

IsWS(c) == c \in WhiteSpace

Min(S) == CHOOSE x \in S : \A y \in S : x <= y
Max(S) == CHOOSE x \in S : \A y \in S : x >= y

(***************************************************************************)
(* String.prototype.trim and replace(/\s+/g, '').                          *)
(***************************************************************************)
RECURSIVE TrimStart(_)
TrimStart(s) ==
    IF s # <<>> /\ IsWS(Head(s)) THEN TrimStart(Tail(s)) ELSE s

RECURSIVE TrimEnd(_)
TrimEnd(s) ==
    IF s # <<>> /\ IsWS(s[Len(s)]) THEN TrimEnd(SubSeq(s, 1, Len(s) - 1)) ELSE s

Trim(s) == TrimEnd(TrimStart(s))

\* the longest run of whitespace that starts s
RECURSIVE WsRun(_)
WsRun(s) ==
    IF s # <<>> /\ IsWS(Head(s)) THEN 1 + WsRun(Tail(s)) ELSE 0

\* s.replace(/\s+/g, ''): every maximal run of whitespace is replaced by ''
RECURSIVE ReplaceWs(_)
ReplaceWs(s) ==
    IF s = <<>> THEN <<>>
    ELSE IF IsWS(Head(s)) THEN ReplaceWs(SubSeq(s, WsRun(s) + 1, Len(s)))
    ELSE <<Head(s)>> \o ReplaceWs(Tail(s))

(***************************************************************************)
(* The regular expressions of extractDetails.                              *)
(***************************************************************************)
NoMatch == [matched |-> FALSE, cap |-> <<>>]
Matched(c) == [matched |-> TRUE, cap |-> c]

\* the literal lab occurs in t at position i
HasAt(t, i, lab) ==
    /\ i + Len(lab) - 1 <= Len(t)
    /\ SubSeq(t, i, i + Len(lab) - 1) = lab

\* [^\n]+ from position p: the last position of the run of non-newlines
RECURSIVE RunEnd(_, _)
RunEnd(t, p) ==
    IF p + 1 <= Len(t) /\ t[p + 1] # "\n" THEN RunEnd(t, p + 1) ELSE p

\* t.match(/<lab>([^\n]+)/): the leftmost match, its group 1
MatchLabel(t, lab) ==
    LET ok(i) == /\ HasAt(t, i, lab)
                 /\ i + Len(lab) <= Len(t)
                 /\ t[i + Len(lab)] # "\n"
        I == {i \in 1..Len(t) : ok(i)}
    IN  IF I = {} THEN NoMatch
        ELSE LET p == Min(I) + Len(lab)
             IN  Matched(SubSeq(t, p, RunEnd(t, p)))

\* t.match(/<lab>\s*([^\n]+)/): \s* is greedy and gives characters back until
\* the group can match one character that is not a newline
MatchLabelWs(t, lab) ==
    LET starts(i) ==
            LET q == i + Len(lab)
                run == WsRun(SubSeq(t, q, Len(t)))
            IN  {q + k : k \in {k \in 0..run : q + k <= Len(t) /\ t[q + k] # "\n"}}
        I == {i \in 1..Len(t) : HasAt(t, i, lab) /\ starts(i) # {}}
    IN  IF I = {} THEN NoMatch
        ELSE LET p == Max(starts(Min(I)))
             IN  Matched(SubSeq(t, p, RunEnd(t, p)))

SNLabel == <<"S", "N", ":">>
PINLabel == <<"P", "I", "N", ":">>
PWLabel == <<"P", "W", ":">>

snMatch(line) == MatchLabel(line, SNLabel)
pinMatch(line) == MatchLabel(line, PINLabel)
pwMatch(line) == MatchLabelWs(line, PWLabel)

\* a capture that trims to '' is turned into null
TrimCaptureOrNull(cap) == IF Trim(cap) = <<>> THEN Null ELSE Str(Trim(cap))

\* the value assigned to sn / pin on a match
TrimCapture(cap) == Str(Trim(cap))
\* a pw that is only trimmed, like sn and pin
PwCaptureTrimOnly(cap) == Str(Trim(cap))

\* the value assigned to pw on a match
PwCapture(cap) == Str(Trim(ReplaceWs(cap)))

\* an assignment that keeps the first match
AssignFirst(old, m, value) ==
    IF m.matched /\ old.kind # "string" THEN value ELSE old

\* the assignment of one field in the loop body: a later match overwrites
Assign(old, m, value) == IF m.matched THEN value ELSE old

\* a loop body written as an if / else if chain: one label per line
ExtractLineElse(acc, line) ==
    IF snMatch(line).matched
    THEN [acc EXCEPT !.sn = TrimCapture(snMatch(line).cap)]
    ELSE IF pinMatch(line).matched
    THEN [acc EXCEPT !.pin = TrimCapture(pinMatch(line).cap)]
    ELSE [acc EXCEPT !.pw = Assign(acc.pw, pwMatch(line),
                                   PwCapture(pwMatch(line).cap))]

\* the body of the for loop, on one line
ExtractLine(acc, line) ==
    [sn  |-> Assign(acc.sn, snMatch(line), TrimCapture(snMatch(line).cap)),
     pin |-> Assign(acc.pin, pinMatch(line), TrimCapture(pinMatch(line).cap)),
     pw  |-> Assign(acc.pw, pwMatch(line), PwCapture(pwMatch(line).cap))]

RECURSIVE ExtractLoop(_, _)
ExtractLoop(acc, lines) ==
    IF lines = <<>> THEN acc
    ELSE ExtractLoop(ExtractLine(acc, Head(lines)), Tail(lines))

\* extractDetails of the OCR component: fields start as null
extractDetails(lines) ==
    ExtractLoop([sn |-> Null, pin |-> Null, pw |-> Null], lines)

BlockTexts(blocks) == [i \in 1..Len(blocks) |-> blocks[i].text]

\* extractDetails of the OCRCamera component: fields start undefined, ?? null
extractDetailsCamera(blocks) ==
    LET r == ExtractLoop([sn |-> Undefined, pin |-> Undefined, pw |-> Undefined],
                         BlockTexts(blocks))
    IN  [sn |-> Coalesce(r.sn, Null), pin |-> Coalesce(r.pin, Null),
         pw |-> Coalesce(r.pw, Null)]

\* lines.join(' ')
RECURSIVE JoinSpace(_)
JoinSpace(lines) ==
    IF lines = <<>> THEN <<>>
    ELSE IF Len(lines) = 1 THEN lines[1]
    ELSE lines[1] \o <<" ">> \o JoinSpace(Tail(lines))

\* lines.join('\n')
RECURSIVE Join(_)
Join(lines) ==
    IF lines = <<>> THEN <<>>
    ELSE IF Len(lines) = 1 THEN lines[1]
    ELSE lines[1] \o <<"\n">> \o Join(Tail(lines))


(***************************************************************************)
(* Inputs: what the collaborators may return.                              *)
(***************************************************************************)
Block(t) == [text |-> t]

DeviceInfo == <<"D", "e", "v", "i", "c", "e", " ", "I", "n", "f", "o">>
SnAbc == <<"S", "N", ":", " ", "A", "B", "C", "1", "2", "3">>
Pin4567 == <<"P", "I", "N", ":", "4", "5", "6", "7">>
PwAbc9 == <<"P", "W", ":", " ", "a", " ", "b", " ", "c", "9">>
SnX1 == <<"S", "N", ":", "X", "1">>
SnX2 == <<"S", "N", ":", "X", "2">>
SnBlank == <<"S", "N", ":", " ">>
PwX == <<"P", "W", ":", "x">>
SnZ9Pin1 == <<"S", "N", ":", "Z", "9", "\n", "P", "I", "N", ":", "1">>
PwQr == <<"P", "W", ":", " ", "q", " ", "r">>

\* recognition results of the scan loop
FrameScenario == <<Block(DeviceInfo), Block(SnAbc), Block(Pin4567), Block(PwAbc9)>>
FrameOther == <<Block(PwQr), Block(SnZ9Pin1)>>
FrameSnOnly == <<Block(SnX1), Block(SnX2)>>
FramePinPw == <<Block(Pin4567), Block(PwAbc9)>>
FrameEmptySn == <<Block(SnBlank), Block(Pin4567), Block(PwX)>>
FrameSnPin == <<Block(SnZ9Pin1)>>
FrameNone == <<>>

Frames == {FrameScenario, FrameOther, FrameSnOnly, FramePinPw, FrameEmptySn,
           FrameSnPin, FrameNone}

\* messages of the errors the collaborators reject with ("" : no message)
CaptureMessages == {"capture failed", "camera busy", ""}
StatMessages == {"stat failed"}
RecognizeMessages == {"recognize failed"}

NoError == [kind |-> "null", val |-> ""]
ErrorOf(msg) == [kind |-> "string", val |-> msg]

\* a catch that always reports the generic message
ErrorMessageGeneric(msg) == "OCR failed"

\* err.message || 'OCR failed'
ErrorMessage(msg) == IF msg # "" THEN msg ELSE "OCR failed"

PhotoPathUndefined == "Photo path is undefined"

(***************************************************************************)
(* uriToContentUri: the kind of reference it resolves to.                  *)
(***************************************************************************)
uriToContentUri(v, os) ==
    IF os = "android" THEN "file"
    ELSE IF v = "OCR" THEN "raw" ELSE "null"

(***************************************************************************)
(* React: the render that follows a task's state updates, and the effect   *)
(* of lines 75-133 / 272-318 with its cleanup.                             *)
(*                                                                         *)
(* Each action is one JavaScript task (a timer callback, or the resumption *)
(* of scan() after an await) together with the render it schedules: React  *)
(* commits the task's state updates and re-runs the effect whose           *)
(* dependencies changed before the next timer callback runs.  The scan     *)
(* closure of the running interval therefore reads the values in           *)
(* `rendered`, which each action brings up to date.                        *)
(*                                                                         *)
(* `hooks` and `error` hold the value last passed to each setter.  After   *)
(* the unmount nothing renders them any more; a suspended scan() still     *)
(* calls the setters and the callback.                                     *)
(***************************************************************************)
\* a dependency array that leaves isProcessing out
DepsNoProcessing(h) == <<h.device, h.hasPermission, h.scanning>>

\* the dependency array of the effect (onDetailsExtracted never changes
\* while the component is mounted: App renders again only to unmount it)
Deps(h) == <<h.device, h.hasPermission, h.isProcessing, h.scanning>>

\* the effect's cleanup ran: no suspended scan() holds the running interval
Disown(cs) == {[c EXCEPT !.own = FALSE] : c \in cs}

\* if (device && hasPermission && scanning) interval = setInterval(scan, 1200)
EffectInterval(h) == h.device /\ h.hasPermission /\ h.scanning

\* a guard that forgets isProcessing
ScanGuardNoProcessing == cameraRef /\ rendered.scanning

\* what the scan closure of the effect reads before it starts a cycle
ScanGuard == cameraRef /\ ~rendered.isProcessing /\ rendered.scanning

\* Commit the state h: m is whether the component stays mounted, iv whether
\* the running interval survived the task, cs the suspended scans.
Render(h, m, iv, cs) ==
    /\ hooks' = h
    /\ mounted' = m
    /\ IF ~m
       THEN /\ rendered' = rendered
            /\ cameraRef' = FALSE
            /\ interval' = FALSE
            /\ cycles' = Disown(cs)
       ELSE IF Deps(h) # Deps(rendered)
       THEN /\ rendered' = h
            /\ cameraRef' = (h.device /\ h.hasPermission)
            /\ interval' = EffectInterval(h)
            /\ cycles' = Disown(cs)
       ELSE /\ rendered' = rendered
            /\ cameraRef' = cameraRef
            /\ interval' = iv
            /\ cycles' = cs

(***************************************************************************)
(* The scan controller.                                                    *)
(***************************************************************************)
\* no cycle has finished yet
NoCycle == [id |-> 0, kind |-> "none", msg |-> "", blocks |-> <<>>]

InitHooks == {[device |-> d, hasPermission |-> p, isProcessing |-> FALSE,
               scanning |-> TRUE] : d \in BOOLEAN, p \in BOOLEAN}

Init ==
    /\ variant \in {"OCR", "OCRCamera"}
    /\ platform \in {"android", "ios"}
    /\ mounted = TRUE
    /\ hooks \in InitHooks
    /\ error = NoError
    /\ rendered = hooks
    /\ cameraRef = (hooks.device /\ hooks.hasPermission)
    /\ interval = EffectInterval(hooks)
    /\ cycles = {}
    /\ started = 0
    /\ lastTick = "none"
    /\ calls = <<>>
    /\ outcomes = <<>>
    /\ last = NoCycle
    /\ startScanning = TRUE
    /\ xpc = "idle"
    /\ xblocks = <<>>
    /\ xres = <<>>

\* useCameraDevice('back') returns another value
DeviceChange ==
    /\ mounted
    /\ Render([hooks EXCEPT !.device = ~hooks.device], TRUE, interval, cycles)
    /\ UNCHANGED <<variant, platform, error, started, lastTick, calls, outcomes,
                   last, startScanning, xVars>>

\* useCameraPermission: permission is granted or withdrawn
PermissionChange ==
    /\ mounted
    /\ Render([hooks EXCEPT !.hasPermission = ~hooks.hasPermission], TRUE,
              interval, cycles)
    /\ UNCHANGED <<variant, platform, error, started, lastTick, calls, outcomes,
                   last, startScanning, xVars>>

\* a cycle start that keeps the previous error
ErrorAtStartKept == error

\* setError(null) at the start of a cycle
ErrorAtStart == NoError

\* a cycle start that leaves isProcessing as it is
ProcessingAtStartUnset == hooks.isProcessing

\* setIsProcessing(true) at the start of a cycle
ProcessingAtStart == TRUE

\* a cycle end that leaves isProcessing as it is
ProcessingAtEndStuck == hooks.isProcessing

\* finally { setIsProcessing(false) }
ProcessingAtEnd == FALSE

\* the host dismisses the view: the effect's cleanup runs
Unmount ==
    /\ mounted
    /\ Render(hooks, FALSE, interval, cycles)
    /\ UNCHANGED <<variant, platform, error, started, lastTick, calls, outcomes,
                   last, startScanning, xVars>>

\* a timer tick whose scan() returns at its guard
TickSkip ==
    /\ interval
    /\ ~ScanGuard
    /\ lastTick' = "skipped"
    /\ UNCHANGED <<variant, platform, mounted, hooks, error, rendered, cameraRef,
                   interval, cycles, started, calls, outcomes, last,
                   startScanning, xVars>>

\* a timer tick whose scan() passes its guard and suspends at takePhoto
TickStart ==
    /\ interval
    /\ ScanGuard
    /\ started < MaxCycles
    /\ started' = started + 1
    /\ lastTick' = "started"
    /\ error' = ErrorAtStart
    /\ Render([hooks EXCEPT !.isProcessing = ProcessingAtStart], mounted, interval,
              cycles \cup {[id |-> started + 1, pc |-> "takePhoto", own |-> TRUE,
                            uri |-> "none"]})
    /\ UNCHANGED <<variant, platform, calls, outcomes, last, startScanning, xVars>>

\* catch (err) { setError(err.message || 'OCR failed') } finally { setIsProcessing(false) }
Fail(c, msg) ==
    /\ error' = ErrorOf(ErrorMessage(msg))
    /\ outcomes' = Append(outcomes, "failed")
    /\ last' = [id |-> c.id, kind |-> "failed", msg |-> msg, blocks |-> <<>>]
    /\ Render([hooks EXCEPT !.isProcessing = ProcessingAtEnd], mounted, interval,
              cycles \ {c})
    /\ UNCHANGED <<variant, platform, started, lastTick, calls, startScanning,
                   xVars>>

\* takePhoto resolves with a path
TakePhotoOk ==
    \E c \in cycles :
        /\ c.pc = "takePhoto"
        /\ cycles' = (cycles \ {c}) \cup {[c EXCEPT !.pc = "uriToContentUri"]}
        /\ UNCHANGED <<variant, platform, mounted, hooks, error, rendered,
                       cameraRef, interval, started, lastTick, calls, outcomes,
                       last, startScanning, xVars>>

\* takePhoto resolves without a path: throw new Error('Photo path is undefined')
TakePhotoNoPath ==
    \E c \in cycles :
        /\ c.pc = "takePhoto"
        /\ Fail(c, PhotoPathUndefined)

\* takePhoto rejects
TakePhotoFail ==
    \E c \in cycles, msg \in CaptureMessages :
        /\ c.pc = "takePhoto"
        /\ Fail(c, msg)

\* uriToContentUri resolves
UriOk ==
    \E c \in cycles :
        /\ c.pc = "uriToContentUri"
        /\ cycles' = (cycles \ {c}) \cup
                     {[c EXCEPT !.pc = "recognize",
                                !.uri = uriToContentUri(variant, platform)]}
        /\ UNCHANGED <<variant, platform, mounted, hooks, error, rendered,
                       cameraRef, interval, started, lastTick, calls, outcomes,
                       last, startScanning, xVars>>

\* RNFetchBlob.fs.stat rejects (android only)
UriFail ==
    \E c \in cycles, msg \in StatMessages :
        /\ c.pc = "uriToContentUri"
        /\ platform = "android"
        /\ Fail(c, msg)

\* the recognizer rejects
RecognizeFail ==
    \E c \in cycles, msg \in RecognizeMessages :
        /\ c.pc = "recognize"
        /\ Fail(c, msg)

\* fields remembered from the cycle that finished before
DetailsAccumulated(v, blocks) ==
    extractDetails(BlockTexts(last.blocks \o blocks))

\* const {sn, pin, pw} = extractDetails(...) of the mounted component
Details(v, blocks) ==
    IF v = "OCR" THEN extractDetails(BlockTexts(blocks))
    ELSE extractDetailsCamera(blocks)

\* a test that forgets pw
CompleteTwo(d) == Truthy(d.sn) /\ Truthy(d.pin)

\* if (sn && pin && pw)
Complete(d) == Truthy(d.sn) /\ Truthy(d.pin) /\ Truthy(d.pw)

Kind(d) == IF Complete(d) THEN "complete" ELSE "incomplete"

\* a payload with pin and pw exchanged
PayloadSwapped(d, blocks) ==
    [sn |-> d.sn, pin |-> d.pw, pw |-> d.pin, fullText |-> Join(BlockTexts(blocks))]

\* the argument of onDetailsExtracted({sn, pin, pw, fullText})
Payload(d, blocks) ==
    [sn |-> d.sn, pin |-> d.pin, pw |-> d.pw, fullText |-> Join(BlockTexts(blocks))]

\* the recognizer resolves: extract, report a complete result, finally
RecognizeOk ==
    \E c \in cycles, blocks \in Frames :
        LET d == Details(variant, blocks)
            done == Complete(d)
            h == [hooks EXCEPT !.scanning = IF done THEN FALSE ELSE @,
                               !.isProcessing = ProcessingAtEnd]
        IN  /\ c.pc = "recognize"
            /\ outcomes' = Append(outcomes, Kind(d))
            /\ last' = [id |-> c.id, kind |-> Kind(d), msg |-> "", blocks |-> blocks]
            /\ calls' = IF done
                        THEN Append(calls, [id |-> c.id, mounted |-> mounted,
                                            blocks |-> blocks,
                                            details |-> Payload(d, blocks)])
                        ELSE calls
            \* handleDetailsExtracted: setStartScanning(false)
            /\ startScanning' = IF done THEN FALSE ELSE startScanning
            \* App renders without the component once startScanning is false
            /\ Render(h, mounted /\ ~done,
                      IF done /\ c.own THEN FALSE ELSE interval, cycles \ {c})
            /\ UNCHANGED <<variant, platform, error, started, lastTick, xVars>>

Next ==
    \/ DeviceChange
    \/ PermissionChange
    \/ Unmount
    \/ TickSkip
    \/ TickStart
    \/ TakePhotoOk
    \/ TakePhotoNoPath
    \/ TakePhotoFail
    \/ UriOk
    \/ UriFail
    \/ RecognizeFail
    \/ RecognizeOk

Spec == Init /\ [][Next]_vars

(***************************************************************************)
(* Properties of the scan controller (checked under Spec).                 *)
(***************************************************************************)
\* a step in which a cycle ends
CycleEnds == Len(outcomes') = Len(outcomes) + 1
\* a step in which a cycle starts
CycleStarts == started' = started + 1

\* all three fields are strings that are not empty
AllFound(d) ==
    \A f \in {"sn", "pin", "pw"} : d[f].kind = "string" /\ Len(d[f].val) > 0

\* all three fields are strings, empty or not
AllPresent(d) == \A f \in {"sn", "pin", "pw"} : d[f].kind = "string"

\* what the last finished cycle's own lines give
LastDetails == extractDetails(BlockTexts(last.blocks))
LastRecognized == last.kind \in {"complete", "incomplete"}

\* the last finished cycle stopped the controller and reported its own result
LastReported ==
    /\ ~hooks.scanning
    /\ calls # <<>>
    /\ calls[Len(calls)].id = last.id
    /\ calls[Len(calls)].details =
          [sn |-> LastDetails.sn, pin |-> LastDetails.pin, pw |-> LastDetails.pw,
           fullText |-> Join(BlockTexts(last.blocks))]

\* C1: over the lifetime of one controller, onDetailsExtracted is invoked at
\* most once.
C1_AtMostOnce == Len(calls) <= 1

\* the callback has been invoked, and the controller has gone on since
C1_Witness == Len(calls) = 1 /\ ~mounted /\ Len(outcomes) >= 2

\* C2: at most one cycle is in flight, and while one is in flight no tick
\* starts another: the cycle ends before the next one starts.
C2_OneInFlight ==
    /\ [](Cardinality(cycles) <= 1)
    /\ [][cycles # {} => ~CycleStarts]_vars

\* a tick fired while a cycle was in flight and was skipped
C2_Witness == cycles # {} /\ lastTick = "skipped" /\ started >= 2

\* C3 (as claimed): teardown cancels the timer, and no callback is invoked
\* once the component is unmounted.
C3_NoCallAfterTeardown ==
    /\ ~mounted => ~interval
    /\ \A i \in 1..Len(calls) : calls[i].mounted

\* C4 (as claimed): a cycle whose three fields are all present, an empty
\* string counting as present, stops the controller and reports its result.
C4_PresentReports == (LastRecognized /\ AllPresent(LastDetails)) => LastReported

\* C4 (amended): a cycle whose three fields are all present and not empty
\* stops the controller and invokes the callback with that cycle's result.
C4_FoundReports == (LastRecognized /\ AllFound(LastDetails)) => LastReported

\* a cycle found all three fields and reported them
C4_Witness ==
    /\ LastRecognized
    /\ AllFound(LastDetails)
    /\ LastReported
    /\ last.blocks = FrameScenario

\* C5: every invocation of the callback comes from a cycle whose own lines
\* give all three fields, and carries exactly that cycle's fields and that
\* cycle's fullText.
C5_OwnCycleOnly ==
    \A i \in 1..Len(calls) :
        LET own == extractDetails(BlockTexts(calls[i].blocks))
        IN  /\ AllFound(own)
            /\ calls[i].details.sn = own.sn
            /\ calls[i].details.pin = own.pin
            /\ calls[i].details.pw = own.pw
            /\ calls[i].details.fullText = Join(BlockTexts(calls[i].blocks))

\* a complete frame was reported after a cycle that saw other fields
C5_Witness ==
    /\ calls # <<>>
    /\ Len(outcomes) >= 2
    /\ outcomes[Len(outcomes) - 1] = "incomplete"
    /\ calls[1].id = Len(outcomes)
    /\ calls[1].blocks = FrameOther

\* C6: scanning goes from true to false only in a step that ends a cycle
\* whose lines give all three fields, never goes back to true, and once it
\* is false no cycle starts.
C6_StoppedTerminal ==
    [][/\ hooks'.scanning # hooks.scanning =>
             /\ hooks.scanning
             /\ CycleEnds
             /\ AllFound(extractDetails(BlockTexts(last'.blocks)))
       /\ ~hooks.scanning => (~hooks'.scanning /\ ~CycleStarts)]_vars

\* the controller stopped, and its timer is gone
C6_Witness == ~hooks.scanning /\ ~interval /\ cycles = {} /\ Len(calls) = 1

\* C7 (as claimed): a failed step sets lastError to the failure's message,
\* leaves the controller scanning and invokes no callback.
C7_ErrorIsMessage ==
    [][(CycleEnds /\ last'.kind = "failed") =>
          /\ error' = ErrorOf(last'.msg)
          /\ hooks'.scanning = hooks.scanning
          /\ calls' = calls]_vars

\* C7 (amended): a failed step sets lastError to the failure's message, or to
\* 'OCR failed' when the failure has no message, ends the cycle, leaves the
\* controller scanning and invokes no callback.
C7_ErrorCaught ==
    [][(CycleEnds /\ last'.kind = "failed") =>
          /\ error' = ErrorOf(IF last'.msg = "" THEN "OCR failed" ELSE last'.msg)
          /\ hooks'.scanning = hooks.scanning
          /\ ~hooks'.isProcessing
          /\ calls' = calls
          /\ startScanning' = startScanning
          /\ Cardinality(cycles') < Cardinality(cycles)]_vars

\* a cycle failed with a message of its own and the controller still scans
C7_Witness ==
    /\ last.kind = "failed"
    /\ last.msg = "recognize failed"
    /\ error = ErrorOf("recognize failed")
    /\ hooks.scanning
    /\ mounted
    /\ calls = <<>>

\* the error the last failure left
LastFailure == ErrorOf(IF last.msg = "" THEN "OCR failed" ELSE last.msg)

\* C8 (as claimed): the error of a failed cycle is still set while the next
\* cycle is in flight.
C8_ErrorUntilSuccess ==
    (last.kind = "failed" /\ cycles # {}) => error = LastFailure

\* C8 (amended): the error of a failed cycle stays set until the next cycle
\* starts; the start of a cycle clears it, so it is null while a cycle is in
\* flight and after a cycle that did not fail.  After two failed cycles and
\* a third that found all three fields, only the third invoked the callback.
C8_ErrorUntilNextStart ==
    /\ cycles # {} => error = NoError
    /\ (cycles = {} /\ last.kind = "failed") => error = LastFailure
    /\ (cycles = {} /\ last.kind # "failed") => error = NoError
    /\ outcomes = <<"failed", "failed", "complete">> =>
          (Len(calls) = 1 /\ calls[1].id = Len(outcomes))

\* two cycles failed, the third found all three fields and was reported
C8_Witness ==
    /\ outcomes = <<"failed", "failed", "complete">>
    /\ Len(calls) = 1
    /\ calls[1].id = Len(outcomes)
    /\ error = NoError

\* the flags say that a tick may start a cycle
Ready == mounted /\ hooks.device /\ hooks.hasPermission /\ hooks.scanning

\* C13: isProcessing is true exactly while a cycle is in flight: it is set at
\* the start and cleared at the end of the cycle on every path, so that with
\* no cycle in flight the next tick passes the guard of scan().
C13_CapturingTracksCycle ==
    /\ hooks.isProcessing <=> cycles # {}
    /\ (cycles = {} /\ Ready) => (interval /\ ScanGuard)

\* a failed and an incomplete cycle have ended and the next tick may start one
C13_Witness ==
    /\ cycles = {}
    /\ ~hooks.isProcessing
    /\ outcomes = <<"failed", "incomplete">>
    /\ Ready
    /\ interval
    /\ ScanGuard
    /\ ENABLED TickStart

\* a tick in this state must not start a cycle
Blocked ==
    \/ ~hooks.device
    \/ ~hooks.hasPermission
    \/ cycles # {}
    \/ ~hooks.scanning

\* C14: a tick while the device or the permission is missing, a cycle is in
\* flight or the controller has stopped starts no cycle (no capture, no
\* recognition), invokes no callback and changes no state of the controller.
C14_BlockedTickNoOp ==
    [][Blocked =>
          /\ ~CycleStarts
          /\ lastTick' # lastTick =>
                /\ lastTick' = "skipped"
                /\ UNCHANGED <<mounted, hooks, error, rendered, cameraRef,
                               interval, cycles, started, calls, outcomes, last,
                               startScanning>>]_vars

\* a tick came while the recognizer was working, and nothing changed
C14_Witness ==
    /\ lastTick = "skipped"
    /\ \E c \in cycles : c.pc = "recognize"
    /\ hooks.isProcessing
    /\ hooks.scanning
    /\ error = NoError
    /\ calls = <<>>
    /\ started = 1

\* setInterval(scan, 1200) keeps firing: a tick that can start a cycle is
\* not postponed for ever
FairSpec == Spec /\ WF_vars(TickStart)

\* a cycle has ended without a complete result and none is in flight
RetryDue ==
    /\ cycles = {}
    /\ last.kind \in {"failed", "incomplete"}
    /\ Ready
    /\ started < MaxCycles

\* C15: while the controller scans, is mounted and has device and permission,
\* every cycle that fails or ends incomplete is followed by another cycle
\* (up to the MaxCycles cycles of the model), however many failed before.
C15_RetryByPolling == RetryDue ~> (cycles # {} \/ ~Ready)

\* a third cycle is in flight after two failures in a row
C15_Witness ==
    /\ outcomes = <<"failed", "failed">>
    /\ cycles # {}
    /\ started = Len(outcomes) + 1
    /\ Ready

\* C16 (as claimed): the recognizer is only called with a reference that is
\* not null, and a capture without a path fails the cycle before that call.
C16_UsableReference ==
    /\ \A c \in cycles : c.pc = "recognize" => c.uri \in {"file", "raw"}
    /\ (cycles = {} /\ last.kind = "failed" /\ last.msg = PhotoPathUndefined) =>
          (error = ErrorOf(PhotoPathUndefined) /\ hooks.scanning)

\* C18: every payload handed to onDetailsExtracted has sn, pin and pw that
\* are strings and not empty; a cycle whose lines leave a field absent or
\* empty makes no call and leaves scanning as it was.
C18_PayloadNonEmpty ==
    /\ [](\A i \in 1..Len(calls) :
              \A f \in {"sn", "pin", "pw"} :
                  /\ calls[i].details[f].kind = "string"
                  /\ calls[i].details[f].val # <<>>)
    /\ [][(CycleEnds /\ last'.kind # "failed"
             /\ ~AllFound(Details(variant, last'.blocks))) =>
              (calls' = calls /\ hooks'.scanning = hooks.scanning)]_vars

\* a cycle read "SN: " with pin and pw present: no call, still scanning
C18_Witness ==
    /\ last.kind = "incomplete"
    /\ last.blocks = FrameEmptySn
    /\ Details(variant, last.blocks).sn = Str(<<>>)
    /\ Truthy(Details(variant, last.blocks).pin)
    /\ Truthy(Details(variant, last.blocks).pw)
    /\ calls = <<>>
    /\ hooks.scanning

(***************************************************************************)
(* The extractors on their own: Init draws a recognition result, Extract   *)
(* applies both extractDetails and the join of line 107 / 293 to it.       *)
(***************************************************************************)
Payloads ==
    {<<>>, <<"A">>, <<" ">>, <<" ", "A">>, <<"A", " ">>, <<"A", " ", "B">>,
     <<" ", "A", " ", "B", " ">>, <<"\n", "A">>, <<"A", "\n", "B">>,
     <<" ", "\t">>, <<"\t", "A", "\t", "B">>}

Labels == {SNLabel, PINLabel, PWLabel}

SnAB == <<"S", "N", ":", " ", "A", " ", "B", " ">>
OneLine == <<"S", "N", ":", "A", " ", "P", "I", "N", ":", "1", " ", "P", "W", ":", "x">>
Prefixed == <<"x", "S", "N", ":", "A">>
SnTwice == <<"S", "N", ":", "\n", "S", "N", ":", "B">>

XTexts ==
    {DeviceInfo, SnAbc, Pin4567, PwAbc9, SnX1, SnX2, SnAB, OneLine, Prefixed,
     SnTwice}
    \cup {lab \o p : lab \in Labels, p \in Payloads}

RECURSIVE BlockSeqs(_)
BlockSeqs(n) ==
    IF n = 0 THEN {<<>>}
    ELSE LET shorter == BlockSeqs(n - 1)
         IN  shorter \cup {Append(b, Block(t)) : b \in shorter, t \in XTexts}

XInputs == BlockSeqs(MaxBlocks) \cup {FrameScenario}

XInit ==
    /\ variant = "OCR"
    /\ platform = "android"
    /\ mounted = TRUE
    /\ hooks = [device |-> FALSE, hasPermission |-> FALSE, isProcessing |-> FALSE,
                scanning |-> TRUE]
    /\ error = NoError
    /\ rendered = hooks
    /\ cameraRef = FALSE
    /\ interval = FALSE
    /\ cycles = {}
    /\ started = 0
    /\ lastTick = "none"
    /\ calls = <<>>
    /\ outcomes = <<>>
    /\ last = NoCycle
    /\ startScanning = TRUE
    /\ xpc = "input"
    /\ xblocks \in XInputs
    /\ xres = <<>>

XExtract ==
    /\ xpc = "input"
    /\ xpc' = "done"
    /\ xres' = [ocr |-> extractDetails(BlockTexts(xblocks)),
                camera |-> extractDetailsCamera(xblocks),
                fullText |-> Join(BlockTexts(xblocks))]
    /\ UNCHANGED <<ctlVars, xblocks>>

XNext == XExtract

SpecExtract == XInit /\ [][XNext]_vars

(***************************************************************************)
(* Properties of the extractors (checked under SpecExtract).               *)
(***************************************************************************)
XLines == BlockTexts(xblocks)

\* the lines of the input that match a field's pattern
SnLines == {i \in 1..Len(XLines) : snMatch(XLines[i]).matched}
PinLines == {i \in 1..Len(XLines) : pinMatch(XLines[i]).matched}
PwLines == {i \in 1..Len(XLines) : pwMatch(XLines[i]).matched}

\* group 1 of the last line that matches
SnCapture == snMatch(XLines[Max(SnLines)]).cap
PinCapture == pinMatch(XLines[Max(PinLines)]).cap
PwLastCapture == pwMatch(XLines[Max(PwLines)]).cap

\* v is cap without the whitespace at its two ends, the rest untouched
TrimmedOf(v, cap) ==
    /\ v = <<>> \/ (~IsWS(v[1]) /\ ~IsWS(v[Len(v)]))
    /\ \E a \in 0..Len(cap), b \in 0..Len(cap) :
          /\ a + Len(v) + b = Len(cap)
          /\ \A i \in 1..a : IsWS(cap[i])
          /\ \A i \in 1..b : IsWS(cap[Len(cap) - b + i])
          /\ v = SubSeq(cap, a + 1, a + Len(v))

NotWS(c) == ~IsWS(c)

\* v is cap with every whitespace character removed
StrippedOf(v, cap) == v = SelectSeq(cap, NotWS)

XResults == {xres.ocr, xres.camera}

\* C9: when several lines match the same label, the field is the processed
\* capture of the last matching line, in both variants of extractDetails;
\* ["SN:X1", "SN:X2"] gives sn "X2" with pin and pw absent.
C9_LastWriteWins ==
    xpc = "done" =>
        \A r \in XResults :
            /\ SnLines # {} => r.sn = Str(Trim(SnCapture))
            /\ PinLines # {} => r.pin = Str(Trim(PinCapture))
            /\ PwLines # {} => r.pw = Str(SelectSeq(PwLastCapture, NotWS))
            /\ xblocks = FrameSnOnly =>
                  r = [sn |-> Str(<<"X", "2">>), pin |-> Null, pw |-> Null]

\* two lines match SN: with different captures, and the later one was taken
C9_Witness ==
    /\ xpc = "done"
    /\ Cardinality(SnLines) >= 2
    /\ snMatch(XLines[Min(SnLines)]).cap # SnCapture
    /\ xres.ocr.sn = Str(Trim(SnCapture))
    /\ xres.ocr.sn # Str(Trim(snMatch(XLines[Min(SnLines)]).cap))

\* C10: pw is the PW: capture with every whitespace character removed; sn and
\* pin are the SN: / PIN: captures with only the whitespace at their ends
\* removed ("PW: a b c9" gives "abc9", "SN: A B " gives "A B").
C10_Whitespace ==
    xpc = "done" =>
        \A r \in XResults :
            /\ PwLines # {} =>
                  /\ r.pw.kind = "string"
                  /\ StrippedOf(r.pw.val, PwLastCapture)
                  /\ \A i \in 1..Len(r.pw.val) : ~IsWS(r.pw.val[i])
            /\ SnLines # {} =>
                  /\ r.sn.kind = "string"
                  /\ TrimmedOf(r.sn.val, SnCapture)
            /\ PinLines # {} =>
                  /\ r.pin.kind = "string"
                  /\ TrimmedOf(r.pin.val, PinCapture)
            /\ xblocks = <<Block(PwAbc9)>> => r.pw = Str(<<"a", "b", "c", "9">>)
            /\ xblocks = <<Block(SnAB)>> => r.sn = Str(<<"A", " ", "B">>)

\* a result whose password lost internal whitespace while its serial number
\* kept internal whitespace and lost the whitespace at its ends
C10_Witness ==
    /\ xpc = "done"
    /\ xblocks = <<Block(SnAB), Block(PwAbc9)>>
    /\ xres.ocr.sn = Str(<<"A", " ", "B">>)
    /\ xres.ocr.pw = Str(<<"a", "b", "c", "9">>)
    /\ xres.camera = xres.ocr

\* the value a field has when line i is the last line that matches it
SnOf(i) == Str(Trim(snMatch(XLines[i]).cap))
PinOf(i) == Str(Trim(pinMatch(XLines[i]).cap))
PwOf(i) == Str(SelectSeq(pwMatch(XLines[i]).cap, NotWS))

\* C11: a field is null exactly when no line matches its pattern; a line that
\* matches gives a string, the empty string included, in both variants.
C11_AbsentIffNoMatch ==
    xpc = "done" =>
        \A r \in XResults :
            /\ r.sn = Null <=> SnLines = {}
            /\ r.pin = Null <=> PinLines = {}
            /\ r.pw = Null <=> PwLines = {}
            /\ SnLines # {} => r.sn.kind = "string"
            /\ PinLines # {} => r.pin.kind = "string"
            /\ PwLines # {} => r.pw.kind = "string"
            /\ xblocks = <<>> => r = [sn |-> Null, pin |-> Null, pw |-> Null]

\* a matched field that is the empty string beside a field that is absent
C11_Witness ==
    /\ xpc = "done"
    /\ SnLines # {}
    /\ xres.ocr.sn = Str(<<>>)
    /\ xres.camera.sn = Str(<<>>)
    /\ PinLines = {}
    /\ xres.ocr.pin = Null
    /\ xres.camera.pin = Null

\* the number of characters of fullText that precede line i
RECURSIVE TextOffset(_)
TextOffset(i) ==
    IF i <= 1 THEN 0 ELSE TextOffset(i - 1) + Len(XLines[i - 1]) + 1

ScenarioText ==
    DeviceInfo \o <<"\n">> \o SnAbc \o <<"\n">> \o Pin4567 \o <<"\n">> \o PwAbc9

\* C12: fullText is the recognised lines, in the order returned, with one
\* newline between consecutive lines (the empty sequence gives the empty
\* string), and the extractor reads the same lines in the same order.
C12_FullTextJoined ==
    xpc = "done" =>
        LET n == Len(XLines)
            ft == xres.fullText
        IN  /\ n = 0 => ft = <<>>
            /\ n > 0 => Len(ft) = TextOffset(n) + Len(XLines[n])
            /\ \A i \in 1..n :
                  /\ SubSeq(ft, TextOffset(i) + 1, TextOffset(i) + Len(XLines[i]))
                        = XLines[i]
                  /\ i < n => ft[TextOffset(i) + Len(XLines[i]) + 1] = "\n"
            /\ xblocks = FrameScenario => ft = ScenarioText
            /\ \A r \in XResults :
                  /\ r.sn = IF SnLines = {} THEN Null ELSE SnOf(Max(SnLines))
                  /\ r.pin = IF PinLines = {} THEN Null ELSE PinOf(Max(PinLines))
                  /\ r.pw = IF PwLines = {} THEN Null ELSE PwOf(Max(PwLines))

\* the four lines of the scenario, joined and extracted
C12_Witness ==
    /\ xpc = "done"
    /\ xblocks = FrameScenario
    /\ xres.fullText = ScenarioText
    /\ xres.ocr = [sn |-> Str(<<"A", "B", "C", "1", "2", "3">>),
                   pin |-> Str(<<"4", "5", "6", "7">>),
                   pw |-> Str(<<"a", "b", "c", "9">>)]

\* C17: the three patterns are applied to every line independently: a line
\* that matches a label makes that field a string whatever else this or any
\* other line matches, and the last line sets every field it matches.
C17_LabelsIndependent ==
    xpc = "done" =>
        \A r \in XResults :
            /\ \A i \in 1..Len(XLines) :
                  /\ snMatch(XLines[i]).matched => r.sn.kind = "string"
                  /\ pinMatch(XLines[i]).matched => r.pin.kind = "string"
                  /\ pwMatch(XLines[i]).matched => r.pw.kind = "string"
            /\ XLines # <<>> =>
                  LET n == Len(XLines)
                  IN  /\ snMatch(XLines[n]).matched => r.sn = SnOf(n)
                      /\ pinMatch(XLines[n]).matched => r.pin = PinOf(n)
                      /\ pwMatch(XLines[n]).matched => r.pw = PwOf(n)
            /\ xblocks = <<Block(OneLine)>> =>
                  r = [sn |-> Str(SubSeq(OneLine, 4, Len(OneLine))),
                       pin |-> Str(SubSeq(OneLine, 10, Len(OneLine))),
                       pw |-> Str(<<"x">>)]

\* one line matched all three labels and set all three fields
C17_Witness ==
    /\ xpc = "done"
    /\ xblocks = <<Block(OneLine)>>
    /\ SnLines = {1} /\ PinLines = {1} /\ PwLines = {1}
    /\ xres.ocr.sn.kind = "string"
    /\ xres.ocr.pin.kind = "string"
    /\ xres.ocr.pw = Str(<<"x">>)
    /\ xres.camera = xres.ocr

\* C19: the two variants of extractDetails return the same sn, pin and pw
\* for every sequence of texts: null where no line matched, the empty string
\* where the last match captured only whitespace.
C19_VariantsAgree ==
    xpc = "done" =>
        /\ xres.ocr = xres.camera
        /\ \A f \in {"sn", "pin", "pw"} : xres.camera[f].kind \in {"null", "string"}

\* an empty sn, a proper pin and no pw, the same in both variants
C19_Witness ==
    /\ xpc = "done"
    /\ Len(xblocks) = 2
    /\ xres.camera.sn = Str(<<>>)
    /\ Truthy(xres.camera.pin)
    /\ xres.camera.pw = Null
    /\ xres.ocr = [sn |-> Str(<<>>), pin |-> xres.camera.pin, pw |-> Null]

=============================================================================
